---------------------------- MODULE Spec2Model ----------------------------
(***************************************************************************)
(* A model of bungee/main.cpp: the spectral height field (E,               *)
(* getTerrainInfo), the tessellation of the terrain (ParamSurface::create, *)
(* ParamSurface::Draw) and the event handlers (onInitialization,           *)
(* onDisplay, onIdle).                                                     *)
(*                                                                         *)
(* Numbers.  A float or double is a pair <<num, den>> standing for         *)
(* num/den; <<0, 0>> is the NaN that 0.0f/0 produces.  Heights, amplitudes *)
(* and normal components are fixed-point numerators in units of 1/Scale.   *)
(* Angles are integers in units of pi/HalfTurn, so that cosf and sinf are  *)
(* table look-ups.  Times are in units of 1/TimeUnit second.               *)
(***************************************************************************)
EXTENDS Integers, Sequences, FiniteSets

\* ------------------------------------------------------------- bounds
MaxN == 2          \* create(N, M): N in 0..MaxN   (the program passes 200)
MaxM == 3          \* create(N, M): M in 0..MaxM   (the program passes 200)
nTrunc == 2        \* truncation order n           (the program passes 35)
CoeffLen == 16     \* entries of the coefficient table (the program: 1000*1000)
MaxSeed == 2       \* srand seeds 0..MaxSeed
MaxTime == 400     \* largest clock reading, in milliseconds
MaxHarm == 4       \* harmonic indices 0..MaxHarm given to E on its own
MaxCols == 2       \* the normalisation on its own: one strip of M in 1..MaxCols
MaxH == 1          \* the normalisation on its own: raw heights -1..MaxH

\* ---------------------------------------------------- numeric constants
Scale == 1000      \* fixed-point unit: the value 1.0
HalfTurn == 12     \* M_PI in angle units (one unit is 15 degrees)
TimeUnit == 10000  \* time units per second
RandMul == 75      \* rand(): multiplier
RandInc == 74      \* rand(): increment
RandMod == 65537   \* rand(): modulus; RAND_MAX = RandMod - 1
PhaseRange == 1910 \* 500 radians in angle units (500 * 12 / pi)

NaN == <<0, 0>>
IsNaN(f) == f[2] = 0
Fix(k) == <<k, 1>>

\* cosf on multiples of 15 degrees, times Scale (first quadrant)
CosQuarter == <<1000, 966, 866, 707, 500, 259, 0>>

cosf(a) ==
    LET r == a % (2 * HalfTurn)
        q == HalfTurn \div 2
    IN  IF r <= q THEN CosQuarter[r + 1]
        ELSE IF r <= HalfTurn THEN 0 - CosQuarter[HalfTurn - r + 1]
        ELSE IF r <= HalfTurn + q THEN 0 - CosQuarter[r - HalfTurn + 1]
        ELSE CosQuarter[2 * HalfTurn - r + 1]

sinf(a) == cosf(a - HalfTurn \div 2)

\* sqrt on integers: the floor of the square root (Newton's iteration)
RECURSIVE SqrtIter(_, _)
SqrtIter(x, r) ==
    LET r2 == (r + x \div r) \div 2
    IN  IF r2 >= r THEN r ELSE SqrtIter(x, r2)

sqrt(x) == IF x = 0 THEN 0 ELSE SqrtIter(x, x)

\* rand(): a linear congruential generator
RandNext(s) == (s * RandMul + RandInc) % RandMod

\* (double)rand() / RAND_MAX * 500, as an angle
PhaseOf(r) == (r * PhaseRange) \div (RandMod - 1)

VARIABLES
    pc,            \* position of the program
    randState,     \* state of rand()
    A,             \* double A: NaN pair while unwritten, else Fix(amplitude)
    coeffs,        \* double* coeffs: the entries written so far, in order
    N, M,          \* arguments of ParamSurface::create
    nVtxPerStrip, nStrips,
    vtxData,       \* std::vector<VertexData> of create
    ci, cj,        \* loop counters i, j of create
    min, max,      \* float min, max of create
    gpuCount,      \* elements handed to glBufferData (-1: none yet)
    drawRanges,    \* <<first, count>> of each glDrawArrays of the last Draw
    lastSample,    \* the last getTerrainInfo call: arguments, locals, results
    sampled,       \* getTerrainInfo has been called
    createCalls,   \* number of calls of ParamSurface::create
    emptyRead,     \* vtxData[0] was read while vtxData was empty
    divZero,       \* a division by zero was evaluated
    clock,         \* glutGet(GLUT_ELAPSED_TIME), milliseconds
    tend,          \* static float tend of onIdle
    tstart, t,     \* locals tstart, t of onIdle
    rotationAngle, \* Object::rotationAngle
    prevClock,     \* the clock reading of the idle event before
    calls,         \* the Animate calls of the current or last idle event
    eIn, eOut      \* arguments and result of E evaluated on its own

progVars == <<pc, randState, A, coeffs, N, M, nVtxPerStrip, nStrips, vtxData,
              ci, cj, min, max, gpuCount, drawRanges, lastSample, sampled,
              createCalls, emptyRead, divZero>>
idleVars == <<clock, prevClock, tend, tstart, t, rotationAngle, calls>>
eVars == <<eIn, eOut>>
vars == <<progVars, idleVars, eVars>>

\* ------------------------------------------------------------------- E
\* double E(double A, int one, int two); amp is a fixed-point numerator
EZeroBranch_m(one, two) == one * two = 0

EZeroBranch(one, two) == one + two = 0

E(amp, one, two) ==
    IF EZeroBranch(one, two) THEN 0
    ELSE (amp * Scale) \div sqrt((one * one + two * two) * Scale * Scale)

\* ------------------------------------------------------ getTerrainInfo
\* x = x * M_PI - M_PI
ToAngle(f) == (HalfTurn * f[1]) \div f[2] - HalfTurn

CoeffIndex_m(one, two, n) == one * (n + 1) + two

\* (int)one * n + (int)two
CoeffIndex(one, two, n) == one * n + two

\* coeffs[idx]; every index read has been written (C5_ReadsUpToNSquaredPlusN)
Phase(idx) == IF idx < Len(coeffs) THEN coeffs[idx + 1] ELSE 0

\* the argument of cosf / sinf for the harmonic (one, two)
Arg(xa, ya, n, one, two) == one * xa + two * ya + Phase(CoeffIndex(one, two, n))

\* e * c of one iteration of the loop named by kind, in units of 1/Scale^2
Term(kind, xa, ya, n, one, two) ==
    LET e == E(A[1], one, two)
        a == Arg(xa, ya, n, one, two)
    IN  CASE kind = "height" -> e * cosf(a)
          [] kind = "dx" -> e * ((0 - 1) * sinf(a) * one)
          [] kind = "dy" -> e * ((0 - 1) * sinf(a) * two)

\* the double loop over one, two in 0..n, as one loop over k = one*(n+1)+two
RECURSIVE LoopSum(_, _, _, _, _)
LoopSum(kind, xa, ya, n, k) ==
    IF k < 0 THEN 0
    ELSE LoopSum(kind, xa, ya, n, k - 1)
         + Term(kind, xa, ya, n, k \div (n + 1), k % (n + 1))

\* the table reads of one double loop: <<one, two, index>>
Reads(n) == { <<one, two, CoeffIndex(one, two, n)>> : one \in 0..n, two \in 0..n }

NormOf_m(dx, dy) ==
    LET len == sqrt(dx * dx + Scale * Scale + dy * dy)
    IN  <<Fix(((0 - dx) * Scale) \div len), Fix((Scale * Scale) \div len),
          Fix(((0 - dy) * Scale) \div len)>>

\* norm = vec3(-dx, 1, -dy)
NormOf(dx, dy) == <<Fix(0 - dx), Fix(Scale), Fix(0 - dy)>>

getTerrainInfo(x, y, n) ==
    IF IsNaN(x) \/ IsNaN(y)
    THEN [x |-> x, y |-> y, n |-> n, height |-> NaN, dx |-> NaN, dy |-> NaN,
          norm |-> <<NaN, Fix(Scale), NaN>>, reads |-> Reads(n)]
    ELSE LET xa == ToAngle(x)
             ya == ToAngle(y)
             last == (n + 1) * (n + 1) - 1
             total == LoopSum("height", xa, ya, n, last) \div Scale
             dx == LoopSum("dx", xa, ya, n, last) \div Scale
             dy == LoopSum("dy", xa, ya, n, last) \div Scale
         IN  [x |-> x, y |-> y, n |-> n, height |-> Fix(total),
              dx |-> Fix(dx), dy |-> Fix(dy), norm |-> NormOf(dx, dy),
              reads |-> Reads(n)]

\* ------------------------------------------------------- ParamSurface
\* (float)a / b
FDiv(a, b) == <<a, b>>

\* vec3(u * 15 - 7.5, h, v * 15 - 7.5)
PositionOf(u, h, v) ==
    <<<<30 * u[1] - 15 * u[2], 2 * u[2]>>, h, <<30 * v[1] - 15 * v[2], 2 * v[2]>>>>

\* ParamSurface::GenVertexData(u, v); the fields u, v keep the arguments
GenVertexData(u, v) ==
    LET s == getTerrainInfo(u, v, nTrunc)
    IN  [position |-> PositionOf(u, s.height, v), normal |-> s.norm,
         h |-> s.height, u |-> u, v |-> v]

ColInRange_m(j, m) == j < m

\* j <= M, the condition of the inner loop of create
ColInRange(j, m) == j <= m

\* a > b on floats: false when either is NaN
FGreater(a, b) == ~IsNaN(a) /\ ~IsNaN(b) /\ a[1] * b[2] > b[1] * a[2]

ScanStep_m(mm, h) ==
    IF FGreater(h, mm[2]) THEN <<mm[1], h>>
    ELSE IF FGreater(mm[2], h) THEN <<h, mm[2]>>
    ELSE mm

\* one iteration of the scan: mm = <<min, max>>, h = vtxData[i].h
ScanStep(mm, h) ==
    IF FGreater(h, mm[2]) THEN <<mm[1], h>>
    ELSE IF FGreater(mm[1], h) THEN <<h, mm[2]>>
    ELSE mm

\* for (int i = 1; i < vtxData.size(); i++): iterations i = 1..k (0-based)
RECURSIVE ScanLoop(_, _, _)
ScanLoop(vs, mm, k) ==
    IF k < 1 THEN mm ELSE ScanStep(ScanLoop(vs, mm, k - 1), vs[k + 1].h)

\* (h - min) / (max - min) on raw heights (denominator 1 or NaN)
Normalized(h, mn, mx) ==
    IF IsNaN(h) \/ IsNaN(mn) \/ IsNaN(mx) THEN NaN
    ELSE IF mx[1] - mn[1] < 0 THEN <<mn[1] - h[1], mn[1] - mx[1]>>
    ELSE <<h[1] - mn[1], mx[1] - mn[1]>>

DrawFirst_m(i) == i * (nVtxPerStrip - 1)

\* first index of glDrawArrays(GL_TRIANGLE_STRIP, i * nVtxPerStrip, nVtxPerStrip)
DrawFirst(i) == i * nVtxPerStrip

\* ------------------------------------------------------------- onIdle
\* glutGet(GLUT_ELAPSED_TIME) / 1000.0f
ToSeconds(ms) == (ms * TimeUnit) \div 1000

\* const float dt = 0.1f
dt == TimeUnit \div 10

StepDt_m(tt, te) == dt

\* float Dt = fmin(dt, tend - t)
StepDt(tt, te) == IF te - tt < dt THEN te - tt ELSE dt

\* rotationAngle = 0.8f * tend
AngleOf(te) == (8 * te) \div 10

\* the advances of the clock between two idle events, milliseconds
ClockDeltas == {0, 30, 100, 250}

\* ------------------------------------------------------ initial state
NoSample == [x |-> NaN, y |-> NaN, n |-> 0, height |-> NaN, dx |-> NaN,
             dy |-> NaN, norm |-> <<NaN, NaN, NaN>>, reads |-> {}]
NoE == [zero |-> FALSE, val |-> 0 - 1, done |-> FALSE]

InitProg ==
    /\ randState = 0
    /\ A = NaN
    /\ coeffs = <<>>
    /\ N = 0 /\ M = 0
    /\ nVtxPerStrip = 0 /\ nStrips = 0
    /\ vtxData = <<>>
    /\ ci = 0 /\ cj = 0
    /\ min = NaN /\ max = NaN
    /\ gpuCount = 0 - 1
    /\ drawRanges = <<>>
    /\ lastSample = NoSample
    /\ sampled = FALSE
    /\ createCalls = 0
    /\ emptyRead = FALSE
    /\ divZero = FALSE

InitIdle ==
    /\ clock = 0 /\ prevClock = 0
    /\ tend = 0 /\ tstart = 0 /\ t = 0
    /\ rotationAngle = 0
    /\ calls = <<>>

Init ==
    /\ pc = "srand"
    /\ InitProg /\ InitIdle
    /\ eIn = <<0, 0, 0>> /\ eOut = NoE

\* --------------------------------------------------- onInitialization
\* srand(time(0))
Srand ==
    /\ pc = "srand"
    /\ randState' \in 0..MaxSeed
    /\ pc' = "setA"
    /\ UNCHANGED <<A, coeffs, N, M, nVtxPerStrip, nStrips, vtxData, ci, cj, min,
                   max, gpuCount, drawRanges, lastSample, sampled, createCalls,
                   emptyRead, divZero, idleVars, eVars>>

\* A = 0.5
SetA ==
    /\ pc = "setA"
    /\ A' = Fix(Scale \div 2)
    /\ pc' = "fill"
    /\ UNCHANGED <<randState, coeffs, N, M, nVtxPerStrip, nStrips, vtxData, ci, cj,
                   min, max, gpuCount, drawRanges, lastSample, sampled, createCalls,
                   emptyRead, divZero, idleVars, eVars>>

CoeffLoopDone_m == Len(coeffs) >= 1

\* the exit condition of for (int i = 0; i < 1000 * 1000; i++)
CoeffLoopDone == Len(coeffs) >= CoeffLen

\* coeffs[i] = (double)rand() / RAND_MAX * 500
FillStep ==
    /\ pc = "fill"
    /\ ~CoeffLoopDone
    /\ randState' = RandNext(randState)
    /\ coeffs' = Append(coeffs, PhaseOf(randState'))
    /\ UNCHANGED <<pc, A, N, M, nVtxPerStrip, nStrips, vtxData, ci, cj, min, max,
                   gpuCount, drawRanges, lastSample, sampled, createCalls,
                   emptyRead, divZero, idleVars, eVars>>

\* scene.Build() -> new Terrain() -> create(N, M), up to its loops
CreateBegin ==
    /\ pc = "fill"
    /\ CoeffLoopDone
    /\ N' \in 0..MaxN
    /\ M' \in 0..MaxM
    /\ nVtxPerStrip' = (M' + 1) * 2
    /\ nStrips' = N'
    /\ vtxData' = <<>>
    /\ ci' = 0 /\ cj' = 0
    /\ createCalls' = createCalls + 1
    /\ pc' = "genA"
    /\ UNCHANGED <<randState, A, coeffs, min, max, gpuCount, drawRanges, lastSample,
                   sampled, emptyRead, divZero, idleVars, eVars>>

\* vtxData.push_back(GenVertexData((float)j / M, (float)i / N))
GenA ==
    /\ pc = "genA"
    /\ ci < N
    /\ ColInRange(cj, M)
    /\ LET u == FDiv(cj, M)
           v == FDiv(ci, N)
       IN  /\ vtxData' = Append(vtxData, GenVertexData(u, v))
           /\ lastSample' = getTerrainInfo(u, v, nTrunc)
    /\ divZero' = (divZero \/ M = 0)
    /\ sampled' = TRUE
    /\ pc' = "genB"
    /\ UNCHANGED <<randState, A, coeffs, N, M, nVtxPerStrip, nStrips, ci, cj, min,
                   max, gpuCount, drawRanges, createCalls, emptyRead, idleVars, eVars>>

GenB_m ==
    /\ pc = "genB"
    /\ LET u == FDiv(cj, M)
           v == FDiv(ci, N)
       IN  /\ vtxData' = Append(vtxData, GenVertexData(u, v))
           /\ lastSample' = getTerrainInfo(u, v, nTrunc)
    /\ divZero' = (divZero \/ M = 0)
    /\ cj' = cj + 1
    /\ pc' = "genA"
    /\ UNCHANGED <<randState, A, coeffs, N, M, nVtxPerStrip, nStrips, ci, min, max,
                   gpuCount, drawRanges, sampled, createCalls, emptyRead, idleVars,
                   eVars>>

\* vtxData.push_back(GenVertexData((float)j / M, (float)(i + 1) / N)); j++
GenB ==
    /\ pc = "genB"
    /\ LET u == FDiv(cj, M)
           v == FDiv(ci + 1, N)
       IN  /\ vtxData' = Append(vtxData, GenVertexData(u, v))
           /\ lastSample' = getTerrainInfo(u, v, nTrunc)
    /\ divZero' = (divZero \/ M = 0)
    /\ cj' = cj + 1
    /\ pc' = "genA"
    /\ UNCHANGED <<randState, A, coeffs, N, M, nVtxPerStrip, nStrips, ci, min, max,
                   gpuCount, drawRanges, sampled, createCalls, emptyRead, idleVars,
                   eVars>>

\* the inner loop ends: i++, j = 0
GenNextRow ==
    /\ pc = "genA"
    /\ ci < N
    /\ ~ColInRange(cj, M)
    /\ ci' = ci + 1
    /\ cj' = 0
    /\ UNCHANGED <<pc, randState, A, coeffs, N, M, nVtxPerStrip, nStrips, vtxData,
                   min, max, gpuCount, drawRanges, lastSample, sampled, createCalls,
                   emptyRead, divZero, idleVars, eVars>>

\* the outer loop ends
GenDone ==
    /\ pc = "genA"
    /\ ~(ci < N)
    /\ pc' = "scanInit"
    /\ UNCHANGED <<randState, A, coeffs, N, M, nVtxPerStrip, nStrips, vtxData, ci,
                   cj, min, max, gpuCount, drawRanges, lastSample, sampled,
                   createCalls, emptyRead, divZero, idleVars, eVars>>

\* float min = vtxData[0].h, max = vtxData[0].h on a non-empty vector
ScanInit ==
    /\ pc = "scanInit"
    /\ Len(vtxData) > 0
    /\ min' = vtxData[1].h
    /\ max' = vtxData[1].h
    /\ pc' = "scan"
    /\ UNCHANGED <<randState, A, coeffs, N, M, nVtxPerStrip, nStrips, vtxData, ci,
                   cj, gpuCount, drawRanges, lastSample, sampled, createCalls,
                   emptyRead, divZero, idleVars, eVars>>

\* the same reads on an empty vector are undefined: the program stops ...
ScanInitEmptyCrash ==
    /\ pc = "scanInit"
    /\ Len(vtxData) = 0
    /\ emptyRead' = TRUE
    /\ pc' = "crashed"
    /\ UNCHANGED <<randState, A, coeffs, N, M, nVtxPerStrip, nStrips, vtxData, ci,
                   cj, min, max, gpuCount, drawRanges, lastSample, sampled,
                   createCalls, divZero, idleVars, eVars>>

\* ... or goes on with whatever the two reads returned
ScanInitEmptyGarbage ==
    /\ pc = "scanInit"
    /\ Len(vtxData) = 0
    /\ emptyRead' = TRUE
    /\ min' \in {Fix(0), Fix(Scale), NaN}
    /\ max' \in {Fix(0), Fix(Scale), NaN}
    /\ pc' = "scan"
    /\ UNCHANGED <<randState, A, coeffs, N, M, nVtxPerStrip, nStrips, vtxData, ci,
                   cj, gpuCount, drawRanges, lastSample, sampled, createCalls,
                   divZero, idleVars, eVars>>

\* the scan for min and max
Scan ==
    /\ pc = "scan"
    /\ LET mm == ScanLoop(vtxData, <<min, max>>, Len(vtxData) - 1)
       IN  min' = mm[1] /\ max' = mm[2]
    /\ pc' = "norm"
    /\ UNCHANGED <<randState, A, coeffs, N, M, nVtxPerStrip, nStrips, vtxData, ci,
                   cj, gpuCount, drawRanges, lastSample, sampled, createCalls,
                   emptyRead, divZero, idleVars, eVars>>

\* vtxData[i].h = (vtxData[i].h - min) / (max - min) for every i
Normalize ==
    /\ pc = "norm"
    /\ vtxData' = [k \in 1..Len(vtxData) |->
                     [vtxData[k] EXCEPT !.h = Normalized(@, min, max)]]
    /\ divZero' = (divZero \/ (Len(vtxData) > 0 /\ ~IsNaN(min) /\ ~IsNaN(max)
                                /\ min = max))
    /\ pc' = "upload"
    /\ UNCHANGED <<randState, A, coeffs, N, M, nVtxPerStrip, nStrips, ci, cj, min,
                   max, gpuCount, drawRanges, lastSample, sampled, createCalls,
                   emptyRead, idleVars, eVars>>

\* glBufferData(..., nVtxPerStrip * nStrips * sizeof(VertexData), ...); create,
\* Build and onInitialization return
Upload ==
    /\ pc = "upload"
    /\ gpuCount' = nVtxPerStrip * nStrips
    /\ pc' = "loop"
    /\ UNCHANGED <<randState, A, coeffs, N, M, nVtxPerStrip, nStrips, vtxData, ci,
                   cj, min, max, drawRanges, lastSample, sampled, createCalls,
                   emptyRead, divZero, idleVars, eVars>>

\* ---------------------------------------------------------- onDisplay
\* scene.Render() -> Object::Draw -> ParamSurface::Draw
onDisplay ==
    /\ pc = "loop"
    /\ drawRanges' = [i \in 1..nStrips |-> <<DrawFirst(i - 1), nVtxPerStrip>>]
    /\ UNCHANGED <<pc, randState, A, coeffs, N, M, nVtxPerStrip, nStrips, vtxData,
                   ci, cj, min, max, gpuCount, lastSample, sampled, createCalls,
                   emptyRead, divZero, idleVars, eVars>>

\* ------------------------------------------------------------- onIdle
\* float tstart = tend; tend = glutGet(GLUT_ELAPSED_TIME) / 1000.0f; t = tstart
IdleBegin ==
    /\ pc = "loop"
    /\ \E d \in ClockDeltas :
          /\ clock + d <= MaxTime
          /\ clock' = clock + d
    /\ prevClock' = clock
    /\ tstart' = tend
    /\ tend' = ToSeconds(clock')
    /\ t' = tend
    /\ calls' = <<>>
    /\ pc' = "idle"
    /\ UNCHANGED <<randState, A, coeffs, N, M, nVtxPerStrip, nStrips, vtxData, ci,
                   cj, min, max, gpuCount, drawRanges, lastSample, sampled,
                   createCalls, emptyRead, divZero, rotationAngle, eVars>>

\* one iteration: Dt = fmin(dt, tend - t); scene.Animate(t, t + Dt); t += dt
IdleStep ==
    /\ pc = "idle"
    /\ t < tend
    /\ LET Dt == StepDt(t, tend)
       IN  /\ rotationAngle' = AngleOf(t + Dt)
           /\ calls' = Append(calls, [ts |-> t, te |-> t + Dt,
                                      before |-> rotationAngle,
                                      after |-> AngleOf(t + Dt)])
    /\ t' = t + dt
    /\ UNCHANGED <<pc, randState, A, coeffs, N, M, nVtxPerStrip, nStrips, vtxData,
                   ci, cj, min, max, gpuCount, drawRanges, lastSample, sampled,
                   createCalls, emptyRead, divZero, clock, prevClock, tend, tstart,
                   eVars>>

\* the loop ends; glutPostRedisplay()
IdleEnd ==
    /\ pc = "idle"
    /\ ~(t < tend)
    /\ pc' = "loop"
    /\ UNCHANGED <<randState, A, coeffs, N, M, nVtxPerStrip, nStrips, vtxData, ci,
                   cj, min, max, gpuCount, drawRanges, lastSample, sampled,
                   createCalls, emptyRead, divZero, idleVars, eVars>>

Next ==
    \/ Srand \/ SetA \/ FillStep \/ CreateBegin
    \/ GenA \/ GenB \/ GenNextRow \/ GenDone
    \/ ScanInit \/ ScanInitEmptyCrash \/ ScanInitEmptyGarbage
    \/ Scan \/ Normalize \/ Upload
    \/ onDisplay \/ IdleBegin \/ IdleStep \/ IdleEnd

Spec == Init /\ [][Next]_vars

\* ------------------------------------------------ E evaluated on its own
AmpVals == {0, Scale \div 2, Scale, 2 * Scale}

InitE ==
    /\ pc = "E"
    /\ InitProg /\ InitIdle
    /\ eIn \in AmpVals \X (0..MaxHarm) \X (0..MaxHarm)
    /\ eOut = NoE

EvalE ==
    /\ pc = "E"
    /\ ~eOut.done
    /\ eOut' = [zero |-> EZeroBranch(eIn[2], eIn[3]),
                val |-> E(eIn[1], eIn[2], eIn[3]), done |-> TRUE]
    /\ UNCHANGED <<progVars, idleVars, eIn>>

NextE == EvalE

SpecE == InitE /\ [][NextE]_vars

\* ------------------------------ the normalisation pass on any height list
Heights == (0 - 1)..MaxH

\* vertex p (0-based) of the one strip of a create(1, m) whose raw height is h
VertexOfHeight(p, m, h) ==
    LET u == FDiv(p \div 2, m)
        v == FDiv(p % 2, 1)
    IN  [position |-> PositionOf(u, Fix(h), v),
         normal |-> <<Fix(0), Fix(Scale), Fix(0)>>, h |-> Fix(h), u |-> u, v |-> v]

InitNorm ==
    /\ pc = "scanInit"
    /\ randState = 0
    /\ A = Fix(Scale \div 2)
    /\ coeffs = <<>>
    /\ N = 1
    /\ M \in 1..MaxCols
    /\ nVtxPerStrip = (M + 1) * 2 /\ nStrips = 1
    /\ \E hs \in [1..((M + 1) * 2) -> Heights] :
          vtxData = [k \in 1..((M + 1) * 2) |-> VertexOfHeight(k - 1, M, hs[k])]
    /\ ci = 1 /\ cj = 0
    /\ min = NaN /\ max = NaN
    /\ gpuCount = 0 - 1
    /\ drawRanges = <<>>
    /\ lastSample = NoSample
    /\ sampled = TRUE
    /\ createCalls = 1
    /\ emptyRead = FALSE
    /\ divZero = FALSE
    /\ InitIdle
    /\ eIn = <<0, 0, 0>> /\ eOut = NoE

NextNorm == ScanInit \/ Scan \/ Normalize

SpecNorm == InitNorm /\ [][NextNorm]_vars

\* ---------------------------------------------------------------- claims
AfterGen == pc \in {"scanInit", "scan", "norm", "upload", "loop", "idle"}
InEventLoop == pc \in {"loop", "idle"}
Finite3(w) == ~IsNaN(w[1]) /\ ~IsNaN(w[2]) /\ ~IsNaN(w[3])
LenSq(w) == w[1][1] * w[1][1] + w[2][1] * w[2][1] + w[3][1] * w[3][1]
RawHeight(k) == vtxData[k].position[2]

\* C1: for N > 0 and M > 0, once the generation loops of create(N, M) have run
\* the vertex list holds exactly N * (M+1) * 2 vertices, which is
\* nVtxPerStrip * nStrips, the element count handed to the GPU buffer.
C1_VertexCount ==
    (N > 0 /\ M > 0 /\ AfterGen) =>
        /\ Len(vtxData) = N * (M + 1) * 2
        /\ Len(vtxData) = nVtxPerStrip * nStrips
        /\ (gpuCount # 0 - 1 => gpuCount = Len(vtxData))

C1_Witness ==
    pc = "loop" /\ N = 2 /\ M = 3 /\ Len(vtxData) = 16 /\ gpuCount = 16

\* C2: for N > 0 and M > 0 the N ranges issued by Draw partition the vertex
\* buffer: every index in [0, N*(M+1)*2) lies in exactly one range, and no
\* range reaches past the end of the buffer.
C2_DrawPartition ==
    (N > 0 /\ M > 0 /\ InEventLoop /\ drawRanges # <<>>) =>
        /\ Len(drawRanges) = N
        /\ \A k \in 1..Len(drawRanges) :
              /\ drawRanges[k][1] = (k - 1) * nVtxPerStrip
              /\ drawRanges[k][1] + drawRanges[k][2] <= gpuCount
        /\ \A idx \in 0..(N * (M + 1) * 2 - 1) :
              Cardinality({k \in 1..Len(drawRanges) :
                             /\ drawRanges[k][1] <= idx
                             /\ idx < drawRanges[k][1] + drawRanges[k][2]}) = 1

C2_Witness ==
    pc = "loop" /\ N = 2 /\ M = 2 /\ drawRanges = <<<<0, 6>>, <<6, 6>>>>

\* C3: for a vertex list whose raw heights are not all equal, after the
\* normalisation pass min and max are the true least and greatest raw height,
\* the least height attribute is 0, the greatest is 1, and all lie in [0, 1].
C3_Normalized ==
    (pc = "upload"
       /\ \A k \in 1..Len(vtxData) : ~IsNaN(RawHeight(k))
       /\ \E k1, k2 \in 1..Len(vtxData) : RawHeight(k1) # RawHeight(k2)) =>
        /\ \A k \in 1..Len(vtxData) :
              /\ min[1] <= RawHeight(k)[1] /\ RawHeight(k)[1] <= max[1]
              /\ vtxData[k].h[2] > 0
              /\ 0 <= vtxData[k].h[1] /\ vtxData[k].h[1] <= vtxData[k].h[2]
        /\ \E k \in 1..Len(vtxData) : RawHeight(k) = min /\ vtxData[k].h[1] = 0
        /\ \E k \in 1..Len(vtxData) :
              RawHeight(k) = max /\ vtxData[k].h[1] = vtxData[k].h[2]

\* the least height comes after the greatest, and neither comes first
C3_Witness ==
    /\ pc = "upload"
    /\ Len(vtxData) = 4
    /\ RawHeight(1) = Fix(0) /\ RawHeight(2) = Fix(1)
    /\ RawHeight(3) = Fix(0 - 1) /\ RawHeight(4) = Fix(0)
    /\ vtxData[3].h = <<0, 2>> /\ vtxData[2].h = <<2, 2>> /\ vtxData[1].h = <<1, 2>>

\* C4 as claimed: the normal of every vertex is a unit vector (to within the
\* rounding of the fixed-point components).
C4_UnitNormal ==
    \A k \in 1..Len(vtxData) :
        Finite3(vtxData[k].normal) =>
            /\ LenSq(vtxData[k].normal) <= Scale * Scale + 4 * Scale
            /\ LenSq(vtxData[k].normal) >= Scale * Scale - 4 * Scale

\* C4 as amended: the normal returned by getTerrainInfo is the vector
\* (-dHeight/dx, 1, -dHeight/dy) itself, not normalised: its middle component
\* is exactly 1 and its length is at least 1, and greater than 1 whenever a
\* partial derivative is not zero.
C4_RawNormal ==
    /\ \A k \in 1..Len(vtxData) :
          Finite3(vtxData[k].normal) =>
              /\ vtxData[k].normal[2] = Fix(Scale)
              /\ LenSq(vtxData[k].normal) >= Scale * Scale
    /\ (sampled /\ Finite3(lastSample.norm)) =>
          /\ lastSample.norm[1][1] = 0 - lastSample.dx[1]
          /\ lastSample.norm[2] = Fix(Scale)
          /\ lastSample.norm[3][1] = 0 - lastSample.dy[1]
          /\ (lastSample.dx[1] # 0 \/ lastSample.dy[1] # 0) =>
                LenSq(lastSample.norm) > Scale * Scale

C4_Witness ==
    /\ sampled /\ Finite3(lastSample.norm)
    /\ lastSample.dx[1] # 0 /\ lastSample.dy[1] # 0
    /\ LenSq(lastSample.norm) > Scale * Scale + 4 * Scale
    /\ vtxData[Len(vtxData)].normal = lastSample.norm

C6_IndexInjective ==
    sampled => \A r1, r2 \in lastSample.reads :
                  (r1[1] # r2[1] \/ r1[2] # r2[2]) => r1[3] # r2[3]

\* C7 as claimed: create(N, M) with N = 0 or M = 0 completes without reading
\* an element of an empty vertex list and without dividing by zero, and leaves
\* 2 * N * (M + 1) vertices (none for N = 0, 2 * N for M = 0).
C7_DegenerateCompletes ==
    (createCalls > 0 /\ (N = 0 \/ M = 0)) =>
        /\ ~emptyRead
        /\ ~divZero
        /\ pc # "crashed"
        /\ (AfterGen => Len(vtxData) = 2 * N * (M + 1))

\* C8: E takes the zero branch exactly when i = 0 and j = 0, where it returns
\* 0; otherwise it returns A / sqrt(i*i + j*j) (to within the fixed-point
\* rounding): E(2, 3, 4) = 0.4 and E(2, 1, 0) = 2.
C8_Weight ==
    eOut.done =>
        LET amp == eIn[1]
            k == eIn[2] * eIn[2] + eIn[3] * eIn[3]
        IN  /\ eOut.zero <=> (eIn[2] = 0 /\ eIn[3] = 0)
            /\ eOut.zero => eOut.val = 0
            /\ ~eOut.zero =>
                  /\ eOut.val >= 0
                  /\ (eOut.val + 1) * (eOut.val + 1) * k > amp * amp
                  /\ (eOut.val <= 2
                        \/ (eOut.val - 2) * (eOut.val - 2) * k <= amp * amp)
            /\ (eIn = <<2 * Scale, 3, 4>>) => eOut.val = (4 * Scale) \div 10
            /\ (eIn = <<2 * Scale, 1, 0>>) => eOut.val = 2 * Scale

C8_Witness ==
    eOut.done /\ eIn = <<2 * Scale, 3, 4>> /\ eOut.val = 400 /\ ~eOut.zero

\* C9: the amplitude and the whole coefficient table are written before the
\* first sample is taken and never written afterwards; create is called
\* exactly once, before the event loop, and no display or idle event changes
\* the mesh or calls create.
C9_Lifecycle ==
    /\ [](/\ sampled => (~IsNaN(A) /\ Len(coeffs) = CoeffLen)
          /\ createCalls <= 1
          /\ InEventLoop => (createCalls = 1 /\ gpuCount # 0 - 1))
    /\ [][/\ sampled => (A' = A /\ coeffs' = coeffs)
          /\ InEventLoop => /\ vtxData' = vtxData
                            /\ createCalls' = createCalls
                            /\ sampled' = sampled
                            /\ lastSample' = lastSample
                            /\ pc' \in {"loop", "idle"}]_vars

C9_Witness ==
    /\ pc = "idle" /\ Len(calls) > 0 /\ drawRanges # <<>>
    /\ createCalls = 1 /\ sampled /\ Len(coeffs) = CoeffLen /\ A = Fix(Scale \div 2)

\* C10: in each idle event the interval from the previous event's elapsed time
\* (0 for the first) to the current one is cut into consecutive Animate calls:
\* the first starts at the previous time, each starts where the one before
\* ended, 0 < Dt <= 0.1 for each, the last ends at the current elapsed time,
\* and the rotation angle changes by at most 0.8 * 0.1 per call.
C10_IdleSubdivision ==
    InEventLoop =>
        /\ tstart = ToSeconds(prevClock)
        /\ tend = ToSeconds(clock)
        /\ calls # <<>> => calls[1].ts = tstart
        /\ \A k \in 2..Len(calls) : calls[k].ts = calls[k - 1].te
        /\ \A k \in 1..Len(calls) :
              /\ 0 < calls[k].te - calls[k].ts
              /\ calls[k].te - calls[k].ts <= dt
              /\ calls[k].after - calls[k].before <= AngleOf(dt)
              /\ calls[k].before - calls[k].after <= AngleOf(dt)
        /\ (pc = "loop" /\ calls # <<>>) => calls[Len(calls)].te = tend
        /\ (pc = "loop" /\ tstart < tend) => calls # <<>>
        /\ pc = "loop" => rotationAngle = AngleOf(tend)

C10_Witness ==
    /\ pc = "loop" /\ Len(calls) = 3 /\ tstart > 0
    /\ calls[3].te - calls[3].ts < dt
    /\ calls[3].te = tend

\* a float pair f has the value a / b (b > 0)
IsRatio(f, a, b) == f[2] > 0 /\ f[1] * b = a * f[2]

\* 1-based place in vtxData of the 0-based index i*(M+1)*2 + 2*j + odd
VtxAt(i, j, odd) == vtxData[i * (M + 1) * 2 + 2 * j + odd + 1]

\* C11: after create(N, M) with N, M > 0, for every row i in [0, N) and column
\* j in [0, M] the vertex at index i*(M+1)*2 + 2*j is the sample at parameters
\* (j/M, i/N) and the next one the sample at (j/M, (i+1)/N); so the odd
\* vertices of strip i lie at the parameters (and are the samples) of the even
\* vertices of strip i+1, and the strips cover the rows from 0 to 1.
C11_StripLayout ==
    (N > 0 /\ M > 0 /\ AfterGen) =>
        /\ Len(vtxData) = N * (M + 1) * 2
        /\ \A i \in 0..(N - 1) : \A j \in 0..M :
              /\ IsRatio(VtxAt(i, j, 0).u, j, M)
              /\ IsRatio(VtxAt(i, j, 0).v, i, N)
              /\ IsRatio(VtxAt(i, j, 1).u, j, M)
              /\ IsRatio(VtxAt(i, j, 1).v, i + 1, N)
              /\ \A odd \in 0..1 :
                    /\ IsRatio(VtxAt(i, j, odd).position[1], 30 * j - 15 * M, 2 * M)
                    /\ IsRatio(VtxAt(i, j, odd).position[3],
                               30 * (i + odd) - 15 * N, 2 * N)
                    /\ pc = "scanInit" =>
                          LET s == getTerrainInfo(FDiv(j, M), FDiv(i + odd, N), nTrunc)
                          IN  /\ VtxAt(i, j, odd).h = s.height
                              /\ VtxAt(i, j, odd).position[2] = s.height
                              /\ VtxAt(i, j, odd).normal = s.norm
        /\ \A i \in 0..(N - 2) : \A j \in 0..M :
              /\ VtxAt(i, j, 1).u = VtxAt(i + 1, j, 0).u
              /\ VtxAt(i, j, 1).v = VtxAt(i + 1, j, 0).v
              /\ VtxAt(i, j, 1).position = VtxAt(i + 1, j, 0).position
              /\ VtxAt(i, j, 1).normal = VtxAt(i + 1, j, 0).normal
        /\ \A j \in 0..M :
              /\ IsRatio(VtxAt(0, j, 0).v, 0, 1)
              /\ IsRatio(VtxAt(N - 1, j, 1).v, 1, 1)

\* two strips of three columns: the seam between them is the row 1/2
C11_Witness ==
    /\ pc = "loop" /\ N = 2 /\ M = 2 /\ Len(vtxData) = 12
    /\ vtxData[1].v = <<0, 2>> /\ vtxData[2].v = <<1, 2>>
    /\ vtxData[7].v = <<1, 2>> /\ vtxData[8].v = <<2, 2>>
    /\ vtxData[4].u = <<1, 2>> /\ vtxData[9].u = <<1, 2>>
    /\ vtxData[4].position = vtxData[9].position
    /\ ~IsNaN(vtxData[4].position[2])

=============================================================================
